---- MODULE Spec2Model ----
(***************************************************************************)
(* Model of swimming.py: one run of main() over an Apple Health export.    *)
(*                                                                         *)
(* Times are whole seconds on one time axis, lap durations are whole       *)
(* minutes (the unit of '@duration'), swolf scores are naturals.  A float  *)
(* that the program computes is the exact fraction [num, den]; den = 0 is  *)
(* the IEEE result of a division by zero: inf when num > 0, NaN when       *)
(* num = 0.  IEEE rounding of finite values is not modelled.               *)
(***************************************************************************)
EXTENDS Integers, Sequences, FiniteSets, Bags, TLC

VARIABLES
    pc,            \* position of main()
    export_xml,    \* the file at Config.EXPORT_XML_PATH (the run's input)
    raw_workouts,  \* main: raw_workouts
    swim_df,       \* main: swim_df
    lap_df,        \* main: lap_df
    lap_sets,      \* analyze_swim_sets: lap_df with diff, is_new_set, set_id
    set_summary,   \* main: set_summary
    files          \* the CSV files written, name -> rows

vars == <<pc, export_xml, raw_workouts, swim_df, lap_df, lap_sets, set_summary, files>>

----------------------------------------------------------------------------
(* Configuration and constants *)

REST_THRESHOLD_SEC == 30
LAP_DISTANCE_M == 25
PACE_DISTANCE_M == 50

WORKOUT_SUMMARY_CSV == "swimming_summary1.csv"
SETS_ANALYSIS_CSV == "swimming_sets_by_rest.csv"

\* Config.TARGET_YEAR / TARGET_MONTH / TARGET_DAY are all None.
None == "None"
TARGET_YEAR == None
TARGET_MONTH == None
TARGET_DAY == None

SWIM_ACTIVITIES ==
    { "HKWorkoutActivityTypeSwimming",
      "HKWorkoutActivityTypePoolSwimming",
      "HKWorkoutActivityTypeOpenWaterSwimming" }

LAP_EVENT_TYPE == "HKWorkoutEventTypeLap"
STROKE_STYLE_KEY == "HKSwimmingStrokeStyle"
SWOLF_KEY == "HKSWOLFScore"

\* The keys '1'..'6' of STROKE_MAP, as the numbers their text spells.
StrokeCodes == 1..6

STROKE_MAP ==
    [c \in StrokeCodes |->
        CASE c = 1 -> "Mixed"
          [] c = 2 -> "Freestyle"
          [] c = 3 -> "Backstroke"
          [] c = 4 -> "Breaststroke"
          [] c = 5 -> "Butterfly"
          [] c = 6 -> "Other/Drill"]

\* Position of a stroke name in lexicographic (code point) order, as sorted()
\* orders the names STROKE_MAP can produce.
StrokeRank(name) ==
    CASE name = "Backstroke" -> 1
      [] name = "Breaststroke" -> 2
      [] name = "Butterfly" -> 3
      [] name = "Freestyle" -> 4
      [] name = "Mixed" -> 5
      [] name = "Other/Drill" -> 6
      [] OTHER -> 7

\* pandas missing values: NaT in a datetime column, NaN in a float column.
\* Every real time, gap and score of the model is >= 0.
NaT == -1
NaN == -1

\* An event attribute that is absent from the XML element.
NoAttr == -2

----------------------------------------------------------------------------
(* Floats as exact fractions *)

Float(n) == [num |-> n, den |-> 1]
FloatNaN == [num |-> 0, den |-> 0]
IsNaNF(v) == v.den = 0 /\ v.num = 0
IsInfF(v) == v.den = 0 /\ v.num > 0
IsFinite(v) == v.den > 0

\* a / b for a finite a >= 0 and a finite b >= 0: x/0.0 is inf, 0.0/0.0 is NaN.
FloatDiv(a, b) == [num |-> a.num * b.den, den |-> a.den * b.num]

FloatMul(a, n) == [num |-> a.num * n, den |-> a.den]

----------------------------------------------------------------------------
(* Utility functions *)

filter_by_date(workout_date) ==
    /\ ~(TARGET_YEAR # None /\ workout_date.year # TARGET_YEAR)
    /\ ~(TARGET_MONTH # None /\ workout_date.month # TARGET_MONTH)
    /\ ~(TARGET_DAY # None /\ workout_date.day # TARGET_DAY)

\* math.floor(value * 10) / 10 for a non-null value other than inf.
format_numeric_value(value) ==
    IF ~IsNaNF(value) /\ ~IsInfF(value)
    THEN [num |-> (value.num * 10) \div value.den, den |-> 10]
    ELSE value

----------------------------------------------------------------------------
(* Sequence helpers *)

Remove(s, i) == SubSeq(s, 1, i - 1) \o SubSeq(s, i + 1, Len(s))

----------------------------------------------------------------------------
(* Data processing functions *)

\* The outcome of open() and xmltodict.parse() on the export file.
LoadOutcome(file) ==
    CASE file.status = "missing" -> "FileNotFoundError"
      [] file.status = "unparseable" -> "Exception"
      [] OTHER -> "ok"

\* One pass over the metadata entries; a later entry with the same key
\* overwrites an earlier one.
RECURSIVE ScanMetadata(_, _)
ScanMetadata(metadata, acc) ==
    IF metadata = <<>> THEN acc
    ELSE LET m == Head(metadata) IN
         ScanMetadata(Tail(metadata),
            IF m.key = STROKE_STYLE_KEY
            THEN [acc EXCEPT !.stroke_style =
                     IF m.value \in StrokeCodes THEN STROKE_MAP[m.value] ELSE "Unknown"]
            ELSE IF m.key = SWOLF_KEY
            THEN [acc EXCEPT !.swolf = m.value]
            ELSE acc)

extract_lap_metadata(metadata) ==
    ScanMetadata(metadata, [stroke_style |-> None, swolf |-> NaN])

\* The row process_lap_data appends for one lap event.  pd.to_datetime(None)
\* is None, which a datetime column holds as NaT: an event without '@date'
\* yields a row, not an error.
LapRow(event) ==
    LET lap_metadata == extract_lap_metadata(event.metadata) IN
    [ lap_time_min |-> IF event.duration = NoAttr THEN 0 ELSE event.duration,
      stroke_style |-> lap_metadata.stroke_style,
      swolf |-> lap_metadata.swolf,
      lap_start |-> IF event.date = NoAttr THEN NaT ELSE event.date ]

RECURSIVE EventRows(_)
EventRows(events) ==
    IF events = <<>> THEN <<>>
    ELSE IF Head(events).type # LAP_EVENT_TYPE
         THEN EventRows(Tail(events))
         ELSE <<LapRow(Head(events))>> \o EventRows(Tail(events))

RECURSIVE process_lap_data(_)
process_lap_data(workouts) ==
    IF workouts = <<>> THEN <<>>
    ELSE LET workout == Head(workouts) IN
         IF workout.activity \notin SWIM_ACTIVITIES
            \/ ~filter_by_date(workout.startDate)
         THEN process_lap_data(Tail(workouts))
         ELSE EventRows(workout.events) \o process_lap_data(Tail(workouts))

\* xmltodict parses a single Workout element to a dict, not a list of one:
\* the loop then runs over the dict's keys and workout['@workoutActivityType']
\* raises TypeError.  On a list it raises KeyError when the attribute is absent.
SwimWorkoutsRaises(workouts) ==
    \/ Len(workouts) = 1
    \/ \E i \in 1..Len(workouts) : workouts[i].activity = None

RECURSIVE process_swim_workouts(_)
process_swim_workouts(workouts) ==
    IF workouts = <<>> THEN <<>>
    ELSE LET workout == Head(workouts) IN
         IF workout.activity \notin SWIM_ACTIVITIES
            \/ ~filter_by_date(workout.startDate)
         THEN process_swim_workouts(Tail(workouts))
         ELSE <<[start |-> workout.startDate]>>
              \o process_swim_workouts(Tail(workouts))

----------------------------------------------------------------------------
(* analyze_swim_sets *)

\* sort_values orders by lap_start with NaT last (na_position='last').
StartLe(a, b) ==
    \/ b.lap_start = NaT
    \/ (a.lap_start # NaT /\ a.lap_start <= b.lap_start)

\* Faulty variant of SortValues: duplicate rows are dropped before sorting.
RECURSIVE SortValuesUnique(_)
SortValuesUnique(df) ==
    IF df = <<>> THEN {<<>>}
    ELSE LET keep == { k \in 1..Len(df) :
                         /\ \A j \in 1..Len(df) : StartLe(df[k], df[j])
                         /\ \A j \in 1..(k - 1) : df[j] # df[k] }
             rest == SelectSeq(df, LAMBDA r : \A k \in keep : r # df[k])
         IN UNION { { <<df[i]>> \o tail : tail \in SortValuesUnique(rest) } : i \in keep }

\* sort_values(by='lap_start') uses the default kind='quicksort', which is not
\* stable: rows with equal keys may come out in any relative order.
RECURSIVE SortValues(_)
SortValues(df) ==
    IF df = <<>> THEN {<<>>}
    ELSE UNION { { <<df[i]>> \o rest : rest \in SortValues(Remove(df, i)) } :
                 i \in { k \in 1..Len(df) :
                            /\ \A j \in 1..Len(df) : StartLe(df[k], df[j])
                            \* equal rows give equal orders: take the first of them
                            /\ \A j \in 1..(k - 1) : df[j] # df[k] } }

\* Faulty variant of DiffSec: the gap is measured from the end of the previous lap.
DiffSecEndToStart(sorted, i) ==
    IF i = 1 THEN NaN
    ELSE IF sorted[i].lap_start = NaT \/ sorted[i - 1].lap_start = NaT THEN NaN
    ELSE LET gap == sorted[i].lap_start
                    - (sorted[i - 1].lap_start + 60 * sorted[i - 1].lap_time_min)
         IN IF gap < 0 THEN 0 ELSE gap

\* lap_start.diff().dt.total_seconds(): NaN in the first row and wherever one
\* of the two timestamps is NaT.
DiffSec(sorted, i) ==
    IF i = 1 THEN NaN
    ELSE IF sorted[i].lap_start = NaT \/ sorted[i - 1].lap_start = NaT THEN NaN
    ELSE sorted[i].lap_start - sorted[i - 1].lap_start

\* Faulty variant of IsNewSet: a gap equal to the threshold opens a new set.
IsNewSetAtThreshold(diff) == diff # NaN /\ diff >= REST_THRESHOLD_SEC

\* lap_start_diff_sec > REST_THRESHOLD_SEC: a comparison with NaN is False, so
\* the column is boolean and line 255 (isna() -> True) assigns nothing.
IsNewSet(diff) == diff # NaN /\ diff > REST_THRESHOLD_SEC

\* is_new_set.cumsum(): the number of True flags up to and including row i.
CumSum(flags, i) == Cardinality({ j \in 1..i : flags[j] })

\* lap_df after lines 248-258.
AssignSets(sorted) ==
    LET diff == [i \in 1..Len(sorted) |-> DiffSec(sorted, i)]
        flag == [i \in 1..Len(sorted) |-> IsNewSet(diff[i])]
    IN [i \in 1..Len(sorted) |->
          [ lap_time_min |-> sorted[i].lap_time_min,
            stroke_style |-> sorted[i].stroke_style,
            swolf |-> sorted[i].swolf,
            lap_start |-> sorted[i].lap_start,
            lap_start_diff_sec |-> diff[i],
            is_new_set |-> flag[i],
            set_id |-> CumSum(flag, i) ]]

\* The rows of one group, in table order.
Group(df, id) == SelectSeq(df, LAMBDA r : r.set_id = id)

\* Faulty variant of AggFirst: 'last' instead of 'first'.
RECURSIVE AggLast(_)
AggLast(g) ==
    IF g = <<>> THEN NaT
    ELSE IF g[Len(g)].lap_start # NaT THEN g[Len(g)].lap_start
    ELSE AggLast(SubSeq(g, 1, Len(g) - 1))

\* 'first': the first non-null value of the group, null if there is none.
RECURSIVE AggFirst(_)
AggFirst(g) ==
    IF g = <<>> THEN NaT
    ELSE IF Head(g).lap_start # NaT THEN Head(g).lap_start
    ELSE AggFirst(Tail(g))

\* 'sum' of lap_time_min.
RECURSIVE AggSum(_)
AggSum(g) == IF g = <<>> THEN 0 ELSE Head(g).lap_time_min + AggSum(Tail(g))

RECURSIVE SwolfSum(_)
SwolfSum(g) ==
    IF g = <<>> THEN 0
    ELSE (IF Head(g).swolf = NaN THEN 0 ELSE Head(g).swolf) + SwolfSum(Tail(g))

\* Faulty variant of AggMean: missing scores are filled with 0 before averaging.
AggMeanFillZero(g) == [num |-> SwolfSum(g), den |-> Len(g)]

\* 'mean' skips NaN; the mean of no values is NaN.
AggMean(g) ==
    LET present == SelectSeq(g, LAMBDA r : r.swolf # NaN) IN
    IF present = <<>> THEN FloatNaN
    ELSE [num |-> SwolfSum(present), den |-> Len(present)]

\* 'count': the number of non-null values of lap_start_diff_sec in the group.
AggCount(g) == Len(SelectSeq(g, LAMBDA r : r.lap_start_diff_sec # NaN))

RECURSIVE SortedNames(_)
SortedNames(S) ==
    IF S = {} THEN <<>>
    ELSE LET m == CHOOSE x \in S : \A y \in S : StrokeRank(x) <= StrokeRank(y)
         IN <<m>> \o SortedNames(S \ {m})

\* '/'.join(sorted(set(styles.dropna()))), kept as the list of joined names.
StrokeCombo(g) ==
    SortedNames({ g[i].stroke_style : i \in 1..Len(g) } \ {None})

\* One row of set_summary, lines 261-281.
SummaryRow(g) ==
    LET lap_count == AggCount(g)
        distance_m == lap_count * LAP_DISTANCE_M
        total_time_sec == FloatMul(Float(AggSum(g)), 60)
    IN [ set_start_time |-> AggFirst(g),
         total_time_sec |-> total_time_sec,
         avg_swolf |-> AggMean(g),
         stroke_combo |-> StrokeCombo(g),
         lap_count |-> lap_count,
         distance_m |-> distance_m,
         pace_sec_per_50m |->
             FloatDiv(total_time_sec, FloatDiv(Float(distance_m), Float(PACE_DISTANCE_M))) ]

\* groupby('set_id'): one row per set id, in ascending order of the id.
RECURSIVE RowsOf(_, _)
RowsOf(df, ids) ==
    IF ids = {} THEN <<>>
    ELSE LET m == CHOOSE x \in ids : \A y \in ids : x <= y
         IN <<SummaryRow(Group(df, m))>> \o RowsOf(df, ids \ {m})

SetSummary(df) == RowsOf(df, { df[i].set_id : i \in 1..Len(df) })

\* A lap_start column in which every value is None has dtype object, not
\* datetime64: diff() or the .dt accessor of line 251 then raises.
StartColumnIsObject(df) == \A i \in 1..Len(df) : df[i].lap_start = NaT

\* A swolf column in which every value is None has dtype object, and whether
\* groupby 'mean' then yields NaN or raises depends on the installed pandas.
MeanOutcomes(df) ==
    IF \A i \in 1..Len(df) : df[i].swolf = NaN THEN {"nan", "raise"} ELSE {"ok"}

----------------------------------------------------------------------------
(* format_output_data *)

\* dt.strftime('%Y-%m-%d %H:%M:%S'): the text of the instant; NaT gives NaN.
Strftime(t) == IF t = NaT THEN <<"NaN">> ELSE <<"%Y-%m-%d %H:%M:%S", t>>

FormatRow(row) ==
    [row EXCEPT !.set_start_time = Strftime(@),
                !.total_time_sec = format_numeric_value(@),
                !.avg_swolf = format_numeric_value(@),
                !.pace_sec_per_50m = format_numeric_value(@)]

format_output_data(summary) == [i \in 1..Len(summary) |-> FormatRow(summary[i])]

----------------------------------------------------------------------------
(* main: one action per statement that can fail or changes the state.  An    *)
(* exception anywhere in the try block is printed and re-raised (lines       *)
(* 354-356): the run ends in "raised" without reaching save_results.         *)

\* Line 326, load_health_data returns the parsed document.
LoadHealthData ==
    /\ pc = "start"
    /\ LoadOutcome(export_xml) = "ok"
    /\ pc' = "loaded"
    /\ UNCHANGED <<export_xml, raw_workouts, swim_df, lap_df, lap_sets, set_summary, files>>

\* Faulty variant of LoadHealthDataRaises: the workout summary is saved on the way out.
LoadHealthDataRaisesAndSaves ==
    /\ pc = "start"
    /\ LoadOutcome(export_xml) # "ok"
    /\ pc' = "raised"
    /\ files' = (WORKOUT_SUMMARY_CSV :> swim_df)
    /\ UNCHANGED <<export_xml, raw_workouts, swim_df, lap_df, lap_sets, set_summary>>

\* Line 326, load_health_data raises (lines 113-116).
LoadHealthDataRaises ==
    /\ pc = "start"
    /\ LoadOutcome(export_xml) # "ok"
    /\ pc' = "raised"
    /\ UNCHANGED <<export_xml, raw_workouts, swim_df, lap_df, lap_sets, set_summary, files>>

\* Line 327, data['HealthData']['Workout'].
SelectWorkouts ==
    /\ pc = "loaded"
    /\ export_xml.has_workout
    /\ raw_workouts' = export_xml.Workout
    /\ pc' = "selected"
    /\ UNCHANGED <<export_xml, swim_df, lap_df, lap_sets, set_summary, files>>

\* Line 327 raises KeyError: the document has no Workout element.
SelectWorkoutsRaises ==
    /\ pc = "loaded"
    /\ ~export_xml.has_workout
    /\ pc' = "raised"
    /\ UNCHANGED <<export_xml, raw_workouts, swim_df, lap_df, lap_sets, set_summary, files>>

\* Line 331.
ProcessSwimWorkouts ==
    /\ pc = "selected"
    /\ ~SwimWorkoutsRaises(raw_workouts)
    /\ swim_df' = process_swim_workouts(raw_workouts)
    /\ pc' = "summarized"
    /\ UNCHANGED <<export_xml, raw_workouts, lap_df, lap_sets, set_summary, files>>

\* Line 331 raises TypeError or KeyError (line 152).
ProcessSwimWorkoutsRaises ==
    /\ pc = "selected"
    /\ SwimWorkoutsRaises(raw_workouts)
    /\ pc' = "raised"
    /\ UNCHANGED <<export_xml, raw_workouts, swim_df, lap_df, lap_sets, set_summary, files>>

\* Line 336.
ProcessLapData ==
    /\ pc = "summarized"
    /\ lap_df' = process_lap_data(raw_workouts)
    /\ pc' = "extracted"
    /\ UNCHANGED <<export_xml, raw_workouts, swim_df, lap_sets, set_summary, files>>

\* Line 340: sort, segment and aggregate.
AnalyzeSwimSets ==
    /\ pc = "extracted"
    /\ lap_df # <<>>
    /\ ~StartColumnIsObject(lap_df)
    /\ \E sorted \in SortValues(lap_df) :
          /\ lap_sets' = AssignSets(sorted)
          /\ set_summary' = SetSummary(lap_sets')
    /\ \E outcome \in MeanOutcomes(lap_df) : outcome # "raise"
    /\ pc' = "analyzed"
    /\ UNCHANGED <<export_xml, raw_workouts, swim_df, lap_df, files>>

\* Line 340 raises: pd.DataFrame([]) has no column 'lap_start', so sort_values
\* raises KeyError on an empty table; or no lap has a timestamp; or groupby
\* 'mean' rejects the object column.
AnalyzeSwimSetsRaises ==
    /\ pc = "extracted"
    /\ \/ lap_df = <<>>
       \/ StartColumnIsObject(lap_df)
       \/ "raise" \in MeanOutcomes(lap_df)
    /\ pc' = "raised"
    /\ UNCHANGED <<export_xml, raw_workouts, swim_df, lap_df, lap_sets, set_summary, files>>

\* Line 343.
FormatOutputData ==
    /\ pc = "analyzed"
    /\ set_summary' = format_output_data(set_summary)
    /\ pc' = "formatted"
    /\ UNCHANGED <<export_xml, raw_workouts, swim_df, lap_df, lap_sets, files>>

\* Line 350, save_results: the two to_csv calls in order.  An exception of
\* either is caught and printed (lines 310-311), never re-raised.
SaveResults ==
    /\ pc = "formatted"
    /\ \E written \in {0, 1, 2} :
          files' = CASE written = 0 -> <<>>
                     [] written = 1 -> (WORKOUT_SUMMARY_CSV :> swim_df)
                     [] written = 2 -> (WORKOUT_SUMMARY_CSV :> swim_df)
                                       @@ (SETS_ANALYSIS_CSV :> set_summary)
    /\ pc' = "done"
    /\ UNCHANGED <<export_xml, raw_workouts, swim_df, lap_df, lap_sets, set_summary>>

Next ==
    \/ LoadHealthData
    \/ LoadHealthDataRaises
    \/ SelectWorkouts
    \/ SelectWorkoutsRaises
    \/ ProcessSwimWorkouts
    \/ ProcessSwimWorkoutsRaises
    \/ ProcessLapData
    \/ AnalyzeSwimSets
    \/ AnalyzeSwimSetsRaises
    \/ FormatOutputData
    \/ SaveResults

----------------------------------------------------------------------------
(* Inputs: the export file found at Config.EXPORT_XML_PATH *)

MaxLaps == 3
MaxLapsSeg == 5
MaxWorkouts == 3

Day == [year |-> 2024, month |-> 6, day |-> 1]

Swimming == "HKWorkoutActivityTypeSwimming"

LapEvent(date, duration, metadata) ==
    [type |-> LAP_EVENT_TYPE, date |-> date, duration |-> duration, metadata |-> metadata]

PauseEvent == [type |-> "HKWorkoutEventTypePause", date |-> 0, duration |-> NoAttr,
               metadata |-> <<>>]

Workout(activity, events) == [activity |-> activity, startDate |-> Day, events |-> events]

\* A parsed export with its Workout elements, at least one.
Document(workouts) == [status |-> "ok", has_workout |-> TRUE, Workout |-> workouts]

Running == "HKWorkoutActivityTypeRunning"

SwolfEntry(v) == [key |-> SWOLF_KEY, value |-> v]
StrokeEntry(c) == [key |-> STROKE_STYLE_KEY, value |-> c]

\* Files on which the run ends early: no file, no XML, no Workout element, a
\* single Workout element, a workout without activity type, no swimming lap.
DegenerateFiles ==
    { [status |-> "missing", has_workout |-> FALSE, Workout |-> <<>>],
      [status |-> "unparseable", has_workout |-> FALSE, Workout |-> <<>>],
      [status |-> "ok", has_workout |-> FALSE, Workout |-> <<>>],
      Document(<<Workout(Swimming, <<LapEvent(0, 1, <<SwolfEntry(40)>>)>>)>>),
      Document(<<Workout(None, <<>>), Workout(Running, <<>>)>>),
      Document(<<Workout(Running, <<LapEvent(0, 1, <<>>)>>),
                 Workout(Swimming, <<PauseEvent>>)>>) }

\* Laps for the aggregation claims: one gap above the threshold, laps of 0
\* or 1 minute, with or without '@date', swolf and stroke present or absent.
AggTimes == {0, 31, NoAttr}
AggDurations == {NoAttr, 1}
AggLaps ==
    { [duration |-> NoAttr, metadata |-> <<>>],
      [duration |-> NoAttr, metadata |-> <<SwolfEntry(40)>>],
      [duration |-> 1, metadata |-> <<StrokeEntry(2), SwolfEntry(40)>>],
      [duration |-> 1, metadata |-> <<SwolfEntry(41), StrokeEntry(3)>>] }
AggEvents == { LapEvent(t, l.duration, l.metadata) : t \in AggTimes, l \in AggLaps }

\* A swimming workout with these lap events, next to a workout of another kind.
OneSwim(events) == Document(<<Workout(Swimming, events), Workout(Running, <<>>)>>)

\* Laps for the segmentation claims.  Start times only, up to MaxLapsSeg laps:
SegTimes == {0, 10, 20, 50, 51, 60}
SegEvents == { LapEvent(t, NoAttr, <<SwolfEntry(40)>>) : t \in SegTimes }

\* and gaps of 30, 31 and 61 s between laps of 0 or 1 minute, with or without
\* '@date', up to MaxLaps laps.
GapTimes == {0, 30, 61, NoAttr}
GapEvents == { LapEvent(t, d, <<SwolfEntry(40)>>) : t \in GapTimes, d \in AggDurations }

\* Several workouts of mixed kinds, laps with and without '@date'.
MainEvents == { PauseEvent, LapEvent(0, 1, <<SwolfEntry(40)>>),
                LapEvent(NoAttr, 1, <<SwolfEntry(40)>>) }
MainWorkouts ==
    { Workout(Swimming, ev) : ev \in UNION { [1..n -> MainEvents] : n \in 0..2 } }
    \cup { Workout(Running, <<LapEvent(0, 1, <<SwolfEntry(40)>>)>>), Workout(None, <<>>) }

\* The state in which main is called.
Start ==
    /\ pc = "start"
    /\ raw_workouts = <<>>
    /\ swim_df = <<>>
    /\ lap_df = <<>>
    /\ lap_sets = <<>>
    /\ set_summary = <<>>
    /\ files = <<>>

Init ==
    /\ Start
    /\ \/ export_xml \in DegenerateFiles
       \/ \E n \in 1..MaxWorkouts : \E ws \in [1..n -> MainWorkouts] :
             export_xml = Document(ws)

InitAgg ==
    /\ Start
    /\ \/ export_xml \in DegenerateFiles
       \/ \E n \in 0..MaxLaps : \E ev \in [1..n -> AggEvents] :
             export_xml = OneSwim(ev)

InitSeg ==
    /\ Start
    /\ \/ export_xml \in DegenerateFiles
       \/ \E n \in 0..MaxLapsSeg : \E ev \in [1..n -> SegEvents] :
             export_xml = OneSwim(ev)
       \/ \E n \in 0..MaxLaps : \E ev \in [1..n -> GapEvents] :
             export_xml = OneSwim(ev)

Spec == Init /\ [][Next]_vars
SpecAgg == InitAgg /\ [][Next]_vars
SpecSeg == InitSeg /\ [][Next]_vars

----------------------------------------------------------------------------
(* Vocabulary of the properties *)

\* analyze_swim_sets has returned and format_output_data has not run yet.
Analyzed == pc = "analyzed"

\* format_output_data has returned: set_summary holds the output rows.
Formatted == pc \in {"formatted", "done"}

\* The export file loads, has workouts, and process_swim_workouts accepts them.
Extractable(file) ==
    /\ LoadOutcome(file) = "ok"
    /\ file.has_workout
    /\ ~SwimWorkoutsRaises(file.Workout)

\* The positions in lap_sets of the laps of the set with the given id.
LapsOfSet(id) == { i \in 1..Len(lap_sets) : lap_sets[i].set_id = id }

\* The set id of the k-th row of set_summary: the k-th smallest id.
SetIdOfRow(k) ==
    CHOOSE id \in { lap_sets[i].set_id : i \in 1..Len(lap_sets) } :
        Cardinality({ j \in { lap_sets[i].set_id : i \in 1..Len(lap_sets) } : j < id }) = k - 1

LapsOfRow(k) == LapsOfSet(SetIdOfRow(k))

NumSets == Cardinality({ lap_sets[i].set_id : i \in 1..Len(lap_sets) })

----------------------------------------------------------------------------
(* C1 *)

\* C1: every row of analyze_swim_sets has lap_count equal to the number of laps
\* grouped into its set, hence lap_count >= 1; a single lap gives one row with
\* lap_count = 1 and distance_m = LAP_DISTANCE_M.
C1_LapCountIsSetSize ==
    Analyzed =>
        /\ Len(set_summary) = NumSets
        /\ \A k \in 1..Len(set_summary) :
              /\ set_summary[k].lap_count = Cardinality(LapsOfRow(k))
              /\ set_summary[k].lap_count >= 1
        /\ Len(lap_df) = 1 =>
              /\ Len(set_summary) = 1
              /\ set_summary[1].lap_count = 1
              /\ set_summary[1].distance_m = LAP_DISTANCE_M

----------------------------------------------------------------------------
(* C2 *)

Starts == [i \in 1..Len(lap_sets) |-> lap_sets[i].lap_start]

\* The partition of the sorted positions into sets.
SetsOfLaps == { LapsOfSet(lap_sets[i].set_id) : i \in 1..Len(lap_sets) }

\* lap_sets is ordered by start time, laps without one last.
SortedByStart ==
    \A i, j \in 1..Len(lap_sets) :
        i < j => \/ Starts[j] = NaT
                 \/ (Starts[i] # NaT /\ Starts[i] <= Starts[j])

\* Lap i starts a new set iff its start is more than the threshold after the
\* start of lap i-1; the first lap starts the first set.
ThresholdRule ==
    /\ SortedByStart
    /\ Len(lap_sets) >= 1 =>
          /\ 1 \in LapsOfRow(1)
          /\ set_summary[1].set_start_time = Starts[1]
    /\ \A i \in 2..Len(lap_sets) :
          lap_sets[i].set_id # lap_sets[i - 1].set_id
             <=> /\ Starts[i] # NaT
                 /\ Starts[i - 1] # NaT
                 /\ Starts[i] - Starts[i - 1] > REST_THRESHOLD_SEC

ScenarioA == <<0, 10, 20, 50, 60>>
ScenarioA51 == <<0, 10, 20, 51, 60>>

\* C2 as stated: the threshold rule, and laps at 0,10,20,50,60 s give the two
\* sets {0,10,20} and {50,60}.
C2_ThresholdAndScenarioA ==
    Analyzed =>
        /\ ThresholdRule
        /\ Starts = ScenarioA => SetsOfLaps = {{1, 2, 3}, {4, 5}}

\* C2 amended: the threshold rule holds (a gap equal to the threshold keeps the
\* lap in the current set, a larger one opens a new set); laps at 0,10,20,50,60 s
\* form ONE set, because the gap 20 -> 50 equals the threshold; laps at
\* 0,10,20,51,60 s form the two sets {0,10,20} and {51,60}.
C2_ThresholdRule ==
    Analyzed =>
        /\ ThresholdRule
        /\ Starts = ScenarioA => SetsOfLaps = {{1, 2, 3, 4, 5}}
        /\ Starts = ScenarioA51 => SetsOfLaps = {{1, 2, 3}, {4, 5}}

C2_Witness == Analyzed /\ Starts = ScenarioA /\ Len(set_summary) = 1

----------------------------------------------------------------------------
(* C3 *)

\* The multiset of the elements of a sequence.
RECURSIVE BagOfSeq(_)
BagOfSeq(s) == IF s = <<>> THEN EmptyBag ELSE SetToBag({Head(s)}) (+) BagOfSeq(Tail(s))

\* The input columns of a row of lap_sets.
InputColumns(r) ==
    [ lap_time_min |-> r.lap_time_min, stroke_style |-> r.stroke_style,
      swolf |-> r.swolf, lap_start |-> r.lap_start ]

\* C3: the set assignment partitions the sorted laps: the laps of lap_sets are
\* exactly the input laps (as a multiset), every set is a contiguous run of the
\* sorted sequence, set ids never decrease, and there is one row per set.
C3_Partition ==
    Analyzed =>
        /\ BagOfSeq([i \in 1..Len(lap_sets) |-> InputColumns(lap_sets[i])]) = BagOfSeq(lap_df)
        /\ \A i, j \in 1..Len(lap_sets) :
              i < j => lap_sets[i].set_id <= lap_sets[j].set_id
        /\ \A S \in SetsOfLaps :
              \A i, j \in S : \A m \in 1..Len(lap_sets) : (i < m /\ m < j) => m \in S
        /\ Len(set_summary) = Cardinality(SetsOfLaps)

\* Three laps, two of them identical, in two sets.
C3_Witness ==
    /\ Analyzed
    /\ Len(lap_df) = 3
    /\ Cardinality(SetsOfLaps) = 2
    /\ \E i, j \in 1..Len(lap_df) : i # j /\ lap_df[i] = lap_df[j]

----------------------------------------------------------------------------
(* C8 *)

\* C8: set_start_time is strictly increasing across consecutive rows, and each
\* row's set_start_time is the start of the earliest lap of its set.
C8_SetStartsIncrease ==
    Analyzed =>
        /\ \A k \in 1..(Len(set_summary) - 1) :
              /\ set_summary[k].set_start_time # NaT
              /\ set_summary[k + 1].set_start_time # NaT
              /\ set_summary[k].set_start_time < set_summary[k + 1].set_start_time
        /\ \A k \in 1..Len(set_summary) :
              /\ set_summary[k].set_start_time \in { Starts[i] : i \in LapsOfRow(k) }
              /\ \A i \in LapsOfRow(k) :
                    Starts[i] # NaT =>
                       /\ set_summary[k].set_start_time # NaT
                       /\ set_summary[k].set_start_time <= Starts[i]

\* Unsorted input with two laps at the same instant, in two sets.
C8_Witness ==
    /\ Analyzed
    /\ Len(set_summary) = 2
    /\ \E i \in 1..(Len(lap_df) - 1) :
          lap_df[i].lap_start # NaT /\ lap_df[i + 1].lap_start # NaT
          /\ lap_df[i].lap_start > lap_df[i + 1].lap_start
    /\ \E i, j \in 1..Len(lap_df) :
          i # j /\ lap_df[i].lap_start = lap_df[j].lap_start /\ lap_df[i] # lap_df[j]

----------------------------------------------------------------------------
(* C10 *)

\* The end of lap i in seconds: its start plus its duration (in minutes).
EndSec(i) == Starts[i] + 60 * lap_sets[i].lap_time_min

BothTimed(i) == Starts[i] # NaT /\ Starts[i - 1] # NaT

\* C10 as stated: inside a set the gap from the END of a lap to the start of
\* the next is at most the threshold, and at a set boundary the gap from the
\* END of the last lap of the preceding set to the start of the set's first lap
\* exceeds the threshold.
C10_EndToStartGaps ==
    Analyzed =>
        \A i \in 2..Len(lap_sets) :
            BothTimed(i) =>
                IF lap_sets[i].set_id = lap_sets[i - 1].set_id
                THEN Starts[i] - EndSec(i - 1) <= REST_THRESHOLD_SEC
                ELSE Starts[i] - EndSec(i - 1) > REST_THRESHOLD_SEC

\* C10 amended: for adjacent laps with start times inside one set, the gap from
\* the start of the earlier lap (hence also from its end) to the start of the
\* later lap is at most the threshold; at every set boundary both laps have
\* start times and the gap from the START of the last lap of the preceding set
\* to the start of the set's first lap exceeds the threshold.
C10_StartToStartGaps ==
    Analyzed =>
        \A i \in 2..Len(lap_sets) :
            IF lap_sets[i].set_id = lap_sets[i - 1].set_id
            THEN BothTimed(i) =>
                    /\ Starts[i] - Starts[i - 1] <= REST_THRESHOLD_SEC
                    /\ Starts[i] - EndSec(i - 1) <= REST_THRESHOLD_SEC
            ELSE /\ BothTimed(i)
                 /\ Starts[i] - Starts[i - 1] > REST_THRESHOLD_SEC

\* A boundary whose end-to-start gap is within the threshold.
C10_Witness ==
    /\ Analyzed
    /\ \E i \in 2..Len(lap_sets) :
          /\ BothTimed(i)
          /\ lap_sets[i].set_id # lap_sets[i - 1].set_id
          /\ Starts[i] - EndSec(i - 1) <= REST_THRESHOLD_SEC
          /\ Starts[i] - EndSec(i - 1) >= 0

----------------------------------------------------------------------------
(* C9 *)

RECURSIVE SwolfTotal(_)
SwolfTotal(S) ==
    IF S = {} THEN 0
    ELSE LET i == CHOOSE x \in S : TRUE IN lap_sets[i].swolf + SwolfTotal(S \ {i})

\* The laps of row k that carry a swolf value.
Scored(k) == { i \in LapsOfRow(k) : lap_sets[i].swolf # NaN }

\* C9: avg_swolf of a set is the mean of the swolf values that are present
\* (laps without one count neither in the sum nor in the denominator), and is
\* NaN, never 0, when none is present; the output row keeps it, floored to one
\* decimal place.
C9_AvgSwolfOfPresent ==
    /\ Analyzed =>
          \A k \in 1..Len(set_summary) :
              LET avg == set_summary[k].avg_swolf IN
              IF Scored(k) = {} THEN IsNaNF(avg)
              ELSE /\ IsFinite(avg)
                   /\ avg.num * Cardinality(Scored(k)) = SwolfTotal(Scored(k)) * avg.den
    /\ Formatted =>
          \A k \in 1..Len(set_summary) :
              LET avg == set_summary[k].avg_swolf IN
              IF Scored(k) = {} THEN IsNaNF(avg)
              ELSE /\ avg.den = 10
                   /\ avg.num = (10 * SwolfTotal(Scored(k))) \div Cardinality(Scored(k))

\* One output row without any swolf value and one whose set mixes laps with
\* and without one.
C9_Witness ==
    /\ Formatted
    /\ \E k \in 1..Len(set_summary) : Scored(k) = {}
    /\ \E k \in 1..Len(set_summary) : Scored(k) # {} /\ Scored(k) # LapsOfRow(k)

----------------------------------------------------------------------------
(* C5 *)

\* C5: a row whose distance_m is 0 has an undefined (NaN) pace_sec_per_50m in
\* the output, never 0 or infinity.
C5_ZeroDistancePaceUndefined ==
    Formatted =>
        \A k \in 1..Len(set_summary) :
            set_summary[k].distance_m = 0 => IsNaNF(set_summary[k].pace_sec_per_50m)

----------------------------------------------------------------------------
(* C4 *)

\* C4: when no lap remains after extraction and filtering, the set analysis
\* raises no error (the run goes on to format and save an empty summary).
C4_EmptyInputNoError ==
    (Extractable(export_xml) /\ process_lap_data(export_xml.Workout) = <<>>)
        => pc # "raised"

----------------------------------------------------------------------------
(* C6 *)

\* A lap event of a swimming workout without '@date'.
HasUndatedLap(file) ==
    \E w \in 1..Len(file.Workout) :
        /\ file.Workout[w].activity \in SWIM_ACTIVITIES
        /\ \E e \in 1..Len(file.Workout[w].events) :
              /\ file.Workout[w].events[e].type = LAP_EVENT_TYPE
              /\ file.Workout[w].events[e].date = NoAttr

\* C6: when a lap event lacks its timestamp the run aborts: the analysis never
\* completes on it and no output file is written.
C6_MissingTimestampAborts ==
    (Extractable(export_xml) /\ HasUndatedLap(export_xml))
        => /\ pc \notin {"analyzed", "formatted", "done"}
           /\ files = <<>>

----------------------------------------------------------------------------
(* C7 *)

StageRank(p) ==
    CASE p = "start" -> 0
      [] p = "loaded" -> 1
      [] p = "selected" -> 2
      [] p = "summarized" -> 3
      [] p = "extracted" -> 4
      [] p = "analyzed" -> 5
      [] p = "formatted" -> 6
      [] p = "done" -> 7
      [] OTHER -> 8

\* Files exist only once save_results has run, after every earlier stage; a
\* run that raised, or whose file cannot be loaded or extracted, wrote none.
SavedLast ==
    /\ files # <<>> => pc = "done"
    /\ pc = "raised" => files = <<>>
    /\ ~Extractable(export_xml) =>
          /\ files = <<>>
          /\ StageRank(pc) \notin 4..7
    /\ SETS_ANALYSIS_CSV \in DOMAIN files => files[SETS_ANALYSIS_CSV] = set_summary

\* Each step of main either completes the next stage in order or raises.
InOrder ==
    \/ StageRank(pc') = StageRank(pc) + 1 /\ pc' # "raised"
    \/ pc' = "raised" /\ StageRank(pc) < 6

\* C7: the stages run in the fixed order load, extract, sort and segment,
\* aggregate, format, save; save is reached only after all earlier stages have
\* completed; an error in loading or extraction ends the run in the re-raised
\* exception with no output file written.
C7_FixedOrder == [](SavedLast) /\ [][InOrder]_vars

\* A run aborted by a file that does not load.
C7_Witness == pc = "raised" /\ LoadOutcome(export_xml) # "ok" /\ files = <<>>

====
